---- MODULE Spec2Model ----
(***************************************************************************)
(* Authorization core of the microservice template: bearer-token           *)
(* authentication (server/middleware/auth), the RBAC middleware            *)
(* (server/middleware/permission-checker), the guarded routes of           *)
(* server/routes.ts with the in-memory storage, and the browser-side       *)
(* permission helpers (client/src/lib/permission-utils.ts).                *)
(***************************************************************************)
EXTENDS Integers, Sequences, FiniteSets, TLC

(***************************************************************************)
(* Bounds of the model.                                                    *)
(***************************************************************************)
MaxOverrides == 1      \* length of the override array handed to the client
MaxClock == 1          \* the clock runs 0..MaxClock
MaxIds == 2            \* crypto.randomUUID() is called at most MaxIds times

(***************************************************************************)
(* Values.                                                                 *)
(***************************************************************************)
\* JavaScript undefined / null (a missing claim, a missing header, no user)
Undefined == "<undefined>"

\* JavaScript truthiness of a string-or-undefined value: !x is TRUE for
\* undefined and for the empty string.
Falsy(x) == x = Undefined \/ x = ""

\* Role strings as they occur in tokens (the token switcher and the test
\* helpers issue capitalised names, the matrices are keyed in lower case).
RoleNames ==
  {"SuperAdmin", "superadmin", "Admin", "admin", "Director", "director",
   "teacher", "parent"}

\* The roles a browser session is run with.
ClientRoles == {"SuperAdmin", "superadmin", "admin", "director", "teacher"}

\* String.prototype.toLowerCase on the role strings of the model.
toLowerCase(s) ==
  CASE s = "SuperAdmin" -> "superadmin"
    [] s = "Admin" -> "admin"
    [] s = "Director" -> "director"
    [] OTHER -> s

Tenants == {"t1", "t2"}

(***************************************************************************)
(* Server: permission-checker.ts                                           *)
(***************************************************************************)
\* The role -> permission-name table inside checkUserPermission, with
\* `defaultPermissions[role] || []` for a role that has no entry.
defaultPermissions(role) ==
  CASE role = "teacher" ->
         {"resource.create", "resource.read", "resource.update",
          "data.read", "view.access_main"}
    [] role = "assistant_director" ->
         {"resource.create", "resource.read", "resource.update",
          "resource.delete", "resource.approve", "resource.reject",
          "data.create", "data.read", "data.update",
          "view.access_main", "view.access_tablet"}
    [] role = "director" ->
         {"resource.manage", "data.manage", "user.read", "user.update",
          "view.access_main", "view.access_tablet"}
    [] role = "admin" ->
         {"resource.manage", "data.manage", "user.manage",
          "settings.manage", "view.access_main", "view.access_tablet",
          "view.access_parent"}
    [] OTHER -> {}

\* A mutant of checkUserPermission: a role without a matrix entry is let in.
checkUserPermission_DefaultAllow(userId, role, resource, action, tenantId) ==
  IF toLowerCase(role) = "superadmin"
  THEN [hasPermission |-> TRUE, requiresApproval |-> FALSE]
  ELSE LET permissionName == resource \o "." \o action
           rolePermissions == defaultPermissions(toLowerCase(role))
       IN [hasPermission |-> rolePermissions = {}
                             \/ permissionName \in rolePermissions
                             \/ (resource \o ".manage") \in rolePermissions,
           requiresApproval |-> FALSE]

\* checkUserPermission(userId, role, resource, action, tenantId): the
\* result's hasPermission and requiresApproval (reason is a message only).
\* Neither userId nor tenantId is read, and the override store is not
\* consulted.
checkUserPermission(userId, role, resource, action, tenantId) ==
  IF toLowerCase(role) = "superadmin"
  THEN [hasPermission |-> TRUE, requiresApproval |-> FALSE]
  ELSE LET permissionName == resource \o "." \o action
           rolePermissions == defaultPermissions(toLowerCase(role))
       IN [hasPermission |-> permissionName \in rolePermissions
                             \/ (resource \o ".manage") \in rolePermissions,
           requiresApproval |-> FALSE]

(***************************************************************************)
(* Client: permission-utils.ts                                             *)
(***************************************************************************)
\* The permission -> roles table PERMISSIONS (a name that is no key of it
\* is outside its DOMAIN: PERMISSIONS[permission] is undefined).
PERMISSIONS ==
  ("dashboard.view" :>
     {"admin", "teacher", "assistant_teacher", "director", "assistant_director"})
  @@ ("settings.access" :> {"admin", "director", "assistant_director"})
  @@ ("feature1.access" :> {"admin", "teacher", "director", "assistant_director"})
  @@ ("feature2.access" :> {"admin", "director"})
  @@ ("feature3.access" :> {"admin"})
  @@ ("data.create" :> {"admin", "teacher", "director", "assistant_director"})
  @@ ("data.update" :> {"admin", "teacher", "director", "assistant_director"})
  @@ ("data.delete" :> {"admin", "director"})
  @@ ("data.approve" :> {"admin", "director"})

\* Permission names the client is asked about: keys of PERMISSIONS and one
\* name that is no key.
ClientPermissions ==
  {"dashboard.view", "feature3.access", "data.delete", "reports.export"}

\* Role arrays of an override record (includes() is membership).
RolesRequiredSets == {{}, {"director"}, {"director", "admin"}, {"teacher"}}
AutoApproveSets == {{}, {"admin"}}

\* The nullable boolean column active: true, false or null.
ActiveValues == {"true", "false", "null"}

\* Override records as the client holds them (PermissionOverride of
\* shared/schema.ts).
OverrideRecords ==
  [permission : {"data.delete"},
   rolesRequired : RolesRequiredSets,
   autoApproveRoles : AutoApproveSets,
   active : ActiveValues]

\* (resource, action) pairs the server is asked about: names of the matrix
\* (granted by name or by the .manage wildcard) and one it lacks.
ServerPermissions ==
  {<<"data", "read">>, <<"data", "delete">>, <<"user", "read">>,
   <<"storage", "read">>}

\* Arrays of at most n elements of S.
RECURSIVE SeqsUpTo(_, _)
SeqsUpTo(S, n) ==
  IF n = 0 THEN {<<>>}
  ELSE LET shorter == SeqsUpTo(S, n - 1)
       IN shorter \cup {Append(s, x) : s \in {t \in shorter : Len(t) = n - 1}, x \in S}

\* find with the test o => o.permission === permission: the active flag is
\* not looked at.
find_IgnoreActive(arr, permission) ==
  LET hits == {i \in 1..Len(arr) : arr[i].permission = permission}
  IN IF hits = {} THEN 0
     ELSE CHOOSE i \in hits : \A j \in hits : i <= j

\* arr.find(o => o.permission === permission && o.active !== false), as
\* the index of the first element passing the test; 0 when there is none
\* (find returns undefined).
find(arr, permission) ==
  LET hits == {i \in 1..Len(arr) :
                 arr[i].permission = permission /\ arr[i].active # "false"}
  IN IF hits = {} THEN 0
     ELSE CHOOSE i \in hits : \A j \in hits : i <= j

OverrideArrays == SeqsUpTo(OverrideRecords, MaxOverrides)

\* Decoded users the stored token can stand for: a role-carrying payload, a
\* payload without role, and a token that does not decode (user is null).
NoUser == [decoded |-> FALSE, role |-> Undefined, tenantId |-> Undefined]

ClientUsers ==
  [decoded : {TRUE}, role : ClientRoles \cup {Undefined}, tenantId : {"t1"}]

VARIABLES
  authToken,            \* client: getUserFromToken() of localStorage.authToken
  permissionOverrides,  \* client: the module-level override array
  overridesFetch,       \* client: App's fetch of the overrides: idle, pending, done
  decision,             \* client: result of the last hasPermission/requiresApproval pair
  store,                \* server: MemStorage.permissionOverrides (key -> record)
  data,                 \* server: MemStorage.data (id -> record)
  objects,              \* the S3 bucket: set of object keys
  auditLogs,            \* server: MemStorage.auditLogs
  nextId,               \* number of ids handed out by crypto.randomUUID()
  now,                  \* the clock, in seconds
  req,                  \* the request in flight, or NoReq
  userCache,            \* server: MemStorage.userCache (user id -> record)
  cache,                \* server: MySQLService.cache (key -> entry)
  served,               \* server: what the last MySQLService call returned
  returned,             \* server: what the last call of the storage returned
  rows,                 \* server: the table tenant_permission_overrides
  upserts               \* server: DatabaseStorage.upsertPermissionOverride calls in flight

vars ==
  <<authToken, permissionOverrides, overridesFetch, decision, store, data, objects,
    auditLogs, nextId, now, req, userCache, cache, served, returned, rows, upserts>>

clientVars == <<authToken, permissionOverrides, overridesFetch, decision>>
serverVars ==
  <<store, data, objects, auditLogs, nextId, now, req, userCache, cache, served, returned, rows, upserts>>
storageCallVars == <<userCache, cache, served, returned, rows, upserts>>

NoDecision ==
  [side |-> "none", permission |-> Undefined, role |-> Undefined,
   allowed |-> FALSE, requiresApproval |-> FALSE]

\* getUserFromToken(): null without a (decodable) token.
getUserFromToken == authToken

\* A mutant of hasPermission: an inactive override is still applied and the
\* SuperAdmin shortcut sits behind the override lookup.
hasPermission_OverrideFirst(permission) ==
  LET user == getUserFromToken
  IN IF ~user.decoded \/ Falsy(user.role) THEN FALSE
     ELSE LET hits == {i \in 1..Len(permissionOverrides) :
                         permissionOverrides[i].permission = permission}
              override == IF hits = {} THEN 0
                          ELSE CHOOSE i \in hits : \A j \in hits : i <= j
          IN IF override # 0
             THEN user.role \in (permissionOverrides[override].rolesRequired
                                 \cup permissionOverrides[override].autoApproveRoles)
             ELSE IF user.role = "SuperAdmin" THEN TRUE
             ELSE IF permission \notin DOMAIN PERMISSIONS THEN FALSE
                     ELSE user.role \in PERMISSIONS[permission]

\* hasPermission(permission)
hasPermission(permission) ==
  LET user == getUserFromToken
  IN IF ~user.decoded \/ Falsy(user.role) THEN FALSE
     ELSE IF user.role = "SuperAdmin" THEN TRUE
     ELSE LET override == find(permissionOverrides, permission)
          IN IF override # 0
             THEN user.role \in (permissionOverrides[override].rolesRequired
                                 \cup permissionOverrides[override].autoApproveRoles)
             ELSE IF permission \notin DOMAIN PERMISSIONS THEN FALSE
                     ELSE user.role \in PERMISSIONS[permission]

\* requiresApproval(permission)
requiresApproval(permission) ==
  LET user == getUserFromToken
  IN IF ~user.decoded \/ Falsy(user.role) THEN TRUE
     ELSE IF user.role = "SuperAdmin" THEN FALSE
     ELSE LET override == find(permissionOverrides, permission)
          IN IF override # 0
             THEN user.role \notin permissionOverrides[override].autoApproveRoles
             ELSE user.role \notin {"admin", "director"}

(***************************************************************************)
(* Client actions.                                                         *)
(***************************************************************************)
\* setAuthToken(token): the authChanged listener of App reloads the page,
\* module state starts over and App's mount effect fetches the overrides
\* because a token is stored.
setAuthToken(user) ==
  /\ authToken' = user
  /\ permissionOverrides' = <<>>
  /\ overridesFetch' = "pending"
  /\ decision' = NoDecision
  /\ UNCHANGED serverVars

\* clearAuthToken(): page reload without a token, nothing is fetched.
clearAuthToken ==
  /\ authToken.decoded
  /\ authToken' = NoUser
  /\ permissionOverrides' = <<>>
  /\ overridesFetch' = "idle"
  /\ decision' = NoDecision
  /\ UNCHANGED serverVars

\* setPermissionOverrides(overrides), called by App when the fetch of
\* /api/permissions/overrides answers with an array.
setPermissionOverrides(overrides) ==
  /\ overridesFetch = "pending"
  /\ overridesFetch' = "done"
  /\ permissionOverrides' = overrides
  /\ decision' = NoDecision
  /\ UNCHANGED <<authToken>>
  /\ UNCHANGED serverVars

\* The fetch fails or answers with something that is no array: the catch
\* logs a warning and the overrides stay as they are.
OverridesFetchFailed ==
  /\ overridesFetch = "pending"
  /\ overridesFetch' = "done"
  /\ UNCHANGED <<authToken, permissionOverrides, decision>>
  /\ UNCHANGED serverVars

\* A component asks hasPermission(permission) and requiresApproval(permission).
ClientCheck(permission) ==
  /\ decision' = [side |-> "client", permission |-> permission,
                  role |-> authToken.role,
                  allowed |-> hasPermission(permission),
                  requiresApproval |-> requiresApproval(permission)]
  /\ UNCHANGED <<authToken, permissionOverrides, overridesFetch>>
  /\ UNCHANGED serverVars

\* A call checkUserPermission(userId, role, resource, action, tenantId) of
\* the RBAC middleware, with its result.
PermissionCheck(userId, role, resource, action, tenantId) ==
  /\ LET result == checkUserPermission(userId, role, resource, action, tenantId)
     IN decision' = [side |-> "server", permission |-> resource \o "." \o action,
                     role |-> role,
                     allowed |-> result.hasPermission,
                     requiresApproval |-> result.requiresApproval]
  /\ UNCHANGED <<authToken, permissionOverrides, overridesFetch>>
  /\ UNCHANGED serverVars

(***************************************************************************)
(* Server: requests, tokens and the middleware chains of routes.ts         *)
(***************************************************************************)
\* `${x}` in a template literal.
Str(x) == IF x = Undefined THEN "undefined" ELSE x

\* String.prototype.includes
includes(s, sub) ==
  \E i \in 1..(Len(s) - Len(sub) + 1) : SubSeq(s, i, i + Len(sub) - 1) = sub

\* Claims of the token payloads presented to the server (JWTPayload).
Payloads ==
  { [userId |-> "u1", role |-> "SuperAdmin", tenantId |-> "t1"],
    [userId |-> "u2", role |-> "Director", tenantId |-> "t1"],
    [userId |-> "u3", role |-> "teacher", tenantId |-> "t2"],
    [userId |-> "u4", role |-> "parent", tenantId |-> "t2"],
    [userId |-> "u5", role |-> Undefined, tenantId |-> "t1"],
    [userId |-> Undefined, role |-> "Director", tenantId |-> "t2"],
    [userId |-> "u6", role |-> "Director", tenantId |-> Undefined] }

NoPayload == [userId |-> Undefined, role |-> Undefined, tenantId |-> Undefined]

\* What a request carries in its Authorization header.
\*   header: "none" (no header), "bare" (a header without a second word,
\*           authHeader.split(' ')[1] is undefined), "token"
\*   form:   "jwt" or "malformed" (not three base64url segments)
\*   signature: "valid" under the server's secret, or "invalid"
\*   exp:    the exp claim, in seconds: 0 (in the past once the clock has
\*           moved), 1 (runs out while the service is up) or MaxClock + 1
\*           (never reached)
Tokens ==
  { [header |-> h, form |-> "malformed", signature |-> "invalid", exp |-> 0,
     payload |-> NoPayload] : h \in {"none", "bare", "token"} }
  \cup
  [header : {"token"}, form : {"jwt"}, signature : {"invalid"},
   exp : {0, MaxClock + 1},
   payload : {[userId |-> "u1", role |-> "SuperAdmin", tenantId |-> "t1"]}]
  \cup
  [header : {"token"}, form : {"jwt"}, signature : {"valid"},
   exp : {MaxClock + 1}, payload : Payloads]
  \cup
  [header : {"token"}, form : {"jwt"}, signature : {"valid"},
   exp : {0}, payload : {p \in Payloads : p.role = "SuperAdmin"}]
  \cup
  [header : {"token"}, form : {"jwt"}, signature : {"valid"},
   exp : {1}, payload : {p \in Payloads : p.role = "teacher"}]

\* jwt.verify(token, jwtSecret) of jsonwebtoken, by its outcome: the
\* payload is returned ("ok") or an error is thrown.  The library decodes
\* the token, then checks the signature, then the exp claim against the
\* clock; TokenExpiredError is a subclass of JsonWebTokenError.
verify(token) ==
  IF token.form # "jwt" THEN "JsonWebTokenError"
  ELSE IF token.signature # "valid" THEN "JsonWebTokenError"
  ELSE IF now >= token.exp THEN "TokenExpiredError"
  ELSE "ok"

\* The routes of routes.ts that mount checkPermission.
RbacRoutes ==
  {"GET /data", "GET /data/:id", "POST /data", "PUT /data/:id",
   "DELETE /data/:id", "POST /storage/upload", "POST /storage/signed-url",
   "GET /storage/download", "GET /storage/list", "DELETE /storage/delete"}

\* A route behind authenticateToken alone, and a mount of the exported
\* optionalAuth middleware in front of a handler.
Routes == RbacRoutes \cup {"GET /locations", "optionalAuth"}

\* A mutant of Chain: DELETE /data/:id is mounted without checkPermission.
Chain_DeleteUnchecked(route) ==
  CASE route = "POST /storage/upload" ->
         <<"authenticateToken", "checkPermission", "upload.single", "handler">>
    [] route = "DELETE /data/:id" -> <<"authenticateToken", "handler">>
    [] route \in RbacRoutes \ {"POST /storage/upload", "DELETE /data/:id"} ->
         <<"authenticateToken", "checkPermission", "handler">>
    [] route = "GET /locations" -> <<"authenticateToken", "handler">>
    [] route = "optionalAuth" -> <<"optionalAuth", "handler">>

\* The middleware chain a route is registered with.
Chain(route) ==
  CASE route = "POST /storage/upload" ->
         <<"authenticateToken", "checkPermission", "upload.single", "handler">>
    [] route \in RbacRoutes \ {"POST /storage/upload"} ->
         <<"authenticateToken", "checkPermission", "handler">>
    [] route = "GET /locations" -> <<"authenticateToken", "handler">>
    [] route = "optionalAuth" -> <<"optionalAuth", "handler">>

\* The (resource, action) a route hands to checkPermission.
RoutePermission(route) ==
  CASE route \in {"GET /data", "GET /data/:id"} -> <<"data", "read">>
    [] route = "POST /data" -> <<"data", "create">>
    [] route = "PUT /data/:id" -> <<"data", "update">>
    [] route = "DELETE /data/:id" -> <<"data", "delete">>
    [] route = "POST /storage/upload" -> <<"storage", "create">>
    [] route \in {"POST /storage/signed-url", "GET /storage/download",
                  "GET /storage/list"} -> <<"storage", "read">>
    [] route = "DELETE /storage/delete" -> <<"storage", "delete">>

NoCheck == [set |-> FALSE, hasPermission |-> FALSE, requiresApproval |-> FALSE]

NoReq ==
  [route |-> Undefined, token |-> CHOOSE t \in Tokens : t.header = "none",
   step |-> 0, userId |-> Undefined, role |-> Undefined,
   tenantId |-> Undefined, permissionCheck |-> NoCheck, status |-> 0]

\* The middleware the request in flight is waiting for; "none" once a
\* response was sent or without a request.
Current ==
  IF req.route = Undefined \/ req.status # 0 THEN "none"
  ELSE Chain(req.route)[req.step]

\* res.status(code): the response ends the request.
Respond(code) == req' = [req EXCEPT !.status = code]

\* next()
next(r) == [r EXCEPT !.step = r.step + 1]

clientUnchanged == UNCHANGED clientVars
effectsUnchanged ==
  UNCHANGED <<store, data, objects, auditLogs, nextId>> /\ UNCHANGED storageCallVars

\* A request arrives (the previous one was answered).
Receive(route, token) ==
  /\ req.route = Undefined \/ req.status # 0
  /\ req' = [route |-> route, token |-> token, step |-> 1,
             userId |-> Undefined, role |-> Undefined, tenantId |-> Undefined,
             permissionCheck |-> NoCheck, status |-> 0]
  /\ effectsUnchanged /\ UNCHANGED now /\ clientUnchanged

\* The clock advances.
Tick ==
  /\ now < MaxClock
  /\ now' = now + 1
  /\ UNCHANGED <<store, data, objects, auditLogs, nextId, req>>
  /\ UNCHANGED storageCallVars
  /\ clientUnchanged

\* A mutant of authenticateToken: a token that fails verification is passed
\* on without a principal instead of being answered.
authenticateToken_FailOpen ==
  /\ Current = "authenticateToken"
  /\ IF req.token.header # "token"
     THEN Respond(401)
     ELSE CASE verify(req.token) = "ok" ->
                 req' = next([req EXCEPT !.userId = req.token.payload.userId,
                                         !.role = req.token.payload.role,
                                         !.tenantId = req.token.payload.tenantId])
            [] verify(req.token) = "TokenExpiredError" -> Respond(401)
            [] verify(req.token) = "JsonWebTokenError" -> req' = next(req)
  /\ effectsUnchanged /\ UNCHANGED now /\ clientUnchanged

\* A mutant of authenticateToken: the instanceof tests are in the other
\* order, and TokenExpiredError being a JsonWebTokenError, an expired token
\* is answered as an invalid one.
authenticateToken_ExpiredAsInvalid ==
  /\ Current = "authenticateToken"
  /\ IF req.token.header # "token"
     THEN Respond(401)
     ELSE CASE verify(req.token) = "ok" ->
                 req' = next([req EXCEPT !.userId = req.token.payload.userId,
                                         !.role = req.token.payload.role,
                                         !.tenantId = req.token.payload.tenantId])
            [] verify(req.token) \in {"TokenExpiredError", "JsonWebTokenError"} ->
                 Respond(403)
  /\ effectsUnchanged /\ UNCHANGED now /\ clientUnchanged

\* authenticateToken(req, res, next)
authenticateToken ==
  /\ Current = "authenticateToken"
  /\ IF req.token.header # "token"
     THEN Respond(401)
     ELSE CASE verify(req.token) = "ok" ->
                 req' = next([req EXCEPT !.userId = req.token.payload.userId,
                                         !.role = req.token.payload.role,
                                         !.tenantId = req.token.payload.tenantId])
            [] verify(req.token) = "TokenExpiredError" -> Respond(401)
            [] verify(req.token) = "JsonWebTokenError" -> Respond(403)
  /\ effectsUnchanged /\ UNCHANGED now /\ clientUnchanged

\* optionalAuth(req, res, next)
optionalAuth ==
  /\ Current = "optionalAuth"
  /\ IF req.token.header = "token" /\ verify(req.token) = "ok"
     THEN req' = next([req EXCEPT !.userId = req.token.payload.userId,
                                  !.role = req.token.payload.role,
                                  !.tenantId = req.token.payload.tenantId])
     ELSE req' = next(req)
  /\ effectsUnchanged /\ UNCHANGED now /\ clientUnchanged

\* The middleware returned by checkPermission(resource, action)
checkPermission ==
  /\ Current = "checkPermission"
  /\ LET resource == RoutePermission(req.route)[1]
         action == RoutePermission(req.route)[2]
     IN IF Falsy(req.userId) \/ Falsy(req.role)
        THEN Respond(401)
        ELSE LET result == checkUserPermission(req.userId, req.role, resource, action,
                                               IF Falsy(req.tenantId) THEN ""
                                               ELSE req.tenantId)
             IN IF ~result.hasPermission
                THEN Respond(403)
                ELSE req' = next([req EXCEPT !.permissionCheck =
                                   [set |-> TRUE,
                                    hasPermission |-> result.hasPermission,
                                    requiresApproval |-> result.requiresApproval]])
  /\ effectsUnchanged /\ UNCHANGED now /\ clientUnchanged

\* upload.single('file'): multer parses the body and calls next().
uploadSingle ==
  /\ Current = "upload.single"
  /\ req' = next(req)
  /\ effectsUnchanged /\ UNCHANGED now /\ clientUnchanged

(***************************************************************************)
(* Server: MemStorage (storage.ts) and S3Service (s3Service.ts)            *)
(***************************************************************************)
EmptyMap == [k \in {} |-> Undefined]

\* The value of a storage call that returned no audit query result.
NoResult ==
  [storage |-> "none", tenantId |-> Undefined, userId |-> Undefined,
   limit |-> 0, offset |-> 0, logs |-> <<>>, total |-> 0]

\* No call of MySQLService was made yet.
NoServed == [call |-> "none", tenantId |-> Undefined, data |-> {}]

\* Callers of DatabaseStorage.upsertPermissionOverride and the state of a
\* caller that has no call in flight.
Writers == {"w1", "w2"}
NoUpsert == [pc |-> "idle", tenantId |-> Undefined, permission |-> Undefined,
             rolesRequired |-> {}, autoApproveRoles |-> {}, active |-> "true",
             existing |-> 0]

\* Map.prototype.set and Map.prototype.delete
MapSet(m, k, v) == (k :> v) @@ m
MapDelete(m, k) == [x \in DOMAIN m \ {k} |-> m[x]]

\* The override inputs the administration surface writes in this model.
OverrideInputs ==
  { [tenantId |-> "t1", permission |-> "data.delete", rolesRequired |-> {},
     autoApproveRoles |-> {"admin"}, active |-> "true"],
    [tenantId |-> "t2", permission |-> "data.delete", rolesRequired |-> {"teacher"},
     autoApproveRoles |-> {}, active |-> "true"],
    [tenantId |-> "t1", permission |-> "data.delete", rolesRequired |-> {"director"},
     autoApproveRoles |-> {"admin"}, active |-> "false"] }

\* MemStorage.getPermissionOverride(tenantId, permission): the set of
\* stored records the find() test accepts (empty for null).
getPermissionOverride(tenantId, permission) ==
  {store[k] : k \in {x \in DOMAIN store :
                       /\ store[x].tenantId = tenantId
                       /\ store[x].permission = permission
                       /\ store[x].active = "true"}}

\* MemStorage.upsertPermissionOverride(override)
upsertPermissionOverride(override) ==
  /\ nextId < MaxIds
  /\ LET id == nextId + 1
         key == override.tenantId \o "-" \o override.permission
         existing == {x \in DOMAIN store :
                        /\ store[x].tenantId = override.tenantId
                        /\ store[x].permission = override.permission}
         saved == [id |-> IF existing = {} THEN id
                          ELSE store[CHOOSE x \in existing : TRUE].id,
                   tenantId |-> override.tenantId,
                   permission |-> override.permission,
                   rolesRequired |-> override.rolesRequired,
                   autoApproveRoles |-> override.autoApproveRoles,
                   active |-> override.active,
                   createdAt |-> IF existing = {} THEN now
                                 ELSE store[CHOOSE x \in existing : TRUE].createdAt,
                   updatedAt |-> now]
     IN /\ store' = MapSet(store, key, saved)
        /\ nextId' = id
  /\ UNCHANGED <<data, objects, auditLogs, now, req, userCache, cache, served, rows, upserts>>
  /\ returned' = NoResult
  /\ clientUnchanged

\* MemStorage.deletePermissionOverride(id, tenantId)
deletePermissionOverride(id, tenantId) ==
  /\ LET hits == {k \in DOMAIN store :
                    store[k].id = id /\ store[k].tenantId = tenantId}
     IN /\ hits # {}
        /\ store' = MapDelete(store, CHOOSE k \in hits : TRUE)
  /\ UNCHANGED <<data, objects, auditLogs, nextId, now, req, userCache, cache, served, rows, upserts>>
  /\ returned' = NoResult
  /\ clientUnchanged

\* MemStorage.createAuditLog with the entry put at the head of the array
\* (unshift instead of push).
createAuditLog_Unshift(log) ==
  <<[id |-> IF "id" \in DOMAIN log THEN log.id ELSE nextId + 1,
     tenantId |-> log.tenantId, userId |-> log.userId,
     userRole |-> log.userRole, action |-> log.action,
     resource |-> log.resource, resourceId |-> log.resourceId,
     timestamp |-> now]>> \o auditLogs

\* MemStorage.createAuditLog(log): the log with the entry pushed.  The
\* entry is { id: crypto.randomUUID(), ...log, timestamp: new Date() }: an id
\* property of log replaces the generated one, a timestamp property does not
\* survive.
createAuditLog(log) ==
  Append(auditLogs,
         [id |-> IF "id" \in DOMAIN log THEN log.id ELSE nextId + 1,
          tenantId |-> log.tenantId, userId |-> log.userId,
          userRole |-> log.userRole, action |-> log.action,
          resource |-> log.resource, resourceId |-> log.resourceId,
          timestamp |-> now])

\* Inputs of direct createAuditLog calls: InsertAuditLog objects, one that
\* also carries an id property and one that carries a timestamp property.
AuditInputs ==
  [tenantId : Tenants, userId : {"u1", "u2"}, userRole : {"Admin"},
   action : {"CREATE"}, resource : {"storage"}, resourceId : {"k"}]
  \cup
  { [id |-> 1, tenantId |-> "t1", userId |-> "u1", userRole |-> "Admin",
     action |-> "CREATE", resource |-> "storage", resourceId |-> "k"],
    [timestamp |-> -1, tenantId |-> "t1", userId |-> "u1", userRole |-> "Admin",
     action |-> "CREATE", resource |-> "storage", resourceId |-> "k"] }

\* storage.createAuditLog(log), called on MemStorage.
CreateAuditLog(log) ==
  /\ nextId < MaxIds
  /\ auditLogs' = createAuditLog(log)
  /\ nextId' = nextId + 1
  /\ returned' = NoResult
  /\ UNCHANGED <<store, data, objects, now, req, userCache, cache, served, rows, upserts>>
  /\ clientUnchanged

\* Parameters of getAuditLogs; limit 0 and offset 0 also stand for the
\* omitted parameter (params.limit || 50, params.offset || 0).
AuditQueries ==
  [tenantId : Tenants, userId : {Undefined, "u1"}, resource : {Undefined},
   action : {Undefined}, limit : {0, 1}, offset : {0, 1}]

\* Array.prototype.slice(start, end)
slice(arr, start, end) ==
  SubSeq(arr, start + 1, IF end < Len(arr) THEN end ELSE Len(arr))

\* MemStorage.getAuditLogs(params): logs and total.
getAuditLogs(params) ==
  LET filtered ==
        SelectSeq(auditLogs,
                  LAMBDA log :
                    /\ log.tenantId = params.tenantId
                    /\ (Falsy(params.userId) \/ log.userId = params.userId)
                    /\ (Falsy(params.resource) \/ log.resource = params.resource)
                    /\ (Falsy(params.action) \/ log.action = params.action))
      start == params.offset
      end == start + (IF params.limit = 0 THEN 50 ELSE params.limit)
  IN [logs |-> slice(filtered, start, end), total |-> Len(filtered)]

\* storage.getAuditLogs(params), called on MemStorage.
GetAuditLogs(params) ==
  /\ returned' = [storage |-> "memory", tenantId |-> params.tenantId,
                  userId |-> params.userId, limit |-> params.limit,
                  offset |-> params.offset,
                  logs |-> getAuditLogs(params).logs,
                  total |-> getAuditLogs(params).total]
  /\ UNCHANGED <<store, data, objects, auditLogs, nextId, now, req, userCache, cache, served,
                 rows, upserts>>
  /\ clientUnchanged

\* DatabaseStorage.getAuditLogs(params) over the same entries.  The query
\* is built by calling .where() once per supplied parameter on one select;
\* a drizzle select keeps a single where clause and each call replaces it,
\* so the clause that reaches the database is the last one set.  ORDER BY
\* timestamp DESC leaves the order of equal timestamps to the database.
DbGetAuditLogs(params) ==
  LET matches(log) ==
        IF ~Falsy(params.action) THEN log.action = params.action
        ELSE IF ~Falsy(params.resource) THEN log.resource = params.resource
        ELSE IF ~Falsy(params.userId) THEN log.userId = params.userId
        ELSE log.tenantId = params.tenantId
      hits == {i \in 1..Len(auditLogs) : matches(auditLogs[i])}
      n == Cardinality(hits)
      start == params.offset
      end == start + (IF params.limit = 0 THEN 50 ELSE params.limit)
  IN /\ \E order \in [1..n -> hits] :
          /\ \A i, j \in 1..n : i # j => order[i] # order[j]
          /\ \A i, j \in 1..n :
               i < j => auditLogs[order[i]].timestamp >= auditLogs[order[j]].timestamp
          /\ returned' = [storage |-> "database", tenantId |-> params.tenantId,
                          userId |-> params.userId, limit |-> params.limit,
                          offset |-> params.offset,
                          logs |-> slice([i \in 1..n |-> auditLogs[order[i]]],
                                         start, end),
                          total |-> n]
     /\ UNCHANGED <<store, data, objects, auditLogs, nextId, now, req, userCache, cache, served,
                    rows, upserts>>
     /\ clientUnchanged

\* MemStorage.getData(id, tenantId): TRUE when an item is returned.
getData(id, tenantId) == id \in DOMAIN data /\ data[id].tenantId = tenantId

\* Request bodies of POST /data: name is required by insertDataSchema.
DataBodies ==
  { [name |-> "n", status |-> Undefined, requiresApproval |-> FALSE],
    [name |-> Undefined, status |-> Undefined, requiresApproval |-> FALSE] }

\* Request bodies of PUT /data/:id (Partial<InsertData>; a property that is
\* Undefined is absent).
DataUpdates ==
  { [status |-> "archived", approvedBy |-> Undefined, tenantId |-> Undefined] }

\* { ...existing, ...updates, id: existing.id, tenantId: existing.tenantId }
\* of MemStorage.updateData.
applyUpdates(existing, updates) ==
  [existing EXCEPT
     !.status = IF updates.status = Undefined THEN @ ELSE updates.status,
     !.approvedBy = IF updates.approvedBy = Undefined THEN @ ELSE updates.approvedBy]

\* MemStorage.createData(data): the item stored.
createData(d) ==
  [id |-> nextId + 1, tenantId |-> d.tenantId, userId |-> d.userId,
   name |-> d.name,
   status |-> IF Falsy(d.status) THEN "draft" ELSE d.status,
   requiresApproval |-> d.requiresApproval,
   approvedBy |-> Undefined]

\* S3Service.generateFileName and generateS3Key for originalName "f.pdf"
\* and no entity id; servicePrefix is its default.
generateFileName(tenantId, type) ==
  tenantId \o "_" \o type \o "_noid_" \o ToString(now) \o "_f.pdf"

generateS3Key(tenantId, type, fileName) ==
  "microservice/" \o tenantId \o "/" \o type \o "/" \o fileName

UploadTypes == {"document"}

\* Keys a caller names in a storage request: the stored ones and one key
\* per tenant that need not exist.
RequestKeys ==
  objects \cup {generateS3Key(t, "document", "f.pdf") : t \in Tenants}

\* What a call of the S3 client ends with.
S3Outcomes == {"ok", "notConfigured", "failed"}

\* What `await storage.createAuditLog(...)` ends with: the entry, or an
\* error thrown by the storage (DatabaseStorage with the database down).
AuditOutcomes == {"ok", "failed"}

(***************************************************************************)
(* Server: the route handlers of routes.ts                                 *)
(***************************************************************************)
handlerUnchanged ==
  UNCHANGED <<store, now>> /\ UNCHANGED storageCallVars /\ clientUnchanged

\* router.get('/data')
GetAllData ==
  /\ Current = "handler" /\ req.route = "GET /data"
  /\ Respond(200)
  /\ UNCHANGED <<data, objects, auditLogs, nextId>>
  /\ handlerUnchanged

\* router.get('/data/:id')
GetDataById(id) ==
  /\ Current = "handler" /\ req.route = "GET /data/:id"
  /\ IF getData(id, req.tenantId) THEN Respond(200) ELSE Respond(404)
  /\ UNCHANGED <<data, objects, auditLogs, nextId>>
  /\ handlerUnchanged

\* router.post('/data')
PostData(body) ==
  /\ Current = "handler" /\ req.route = "POST /data"
  /\ IF body.name = Undefined \/ req.tenantId = Undefined
     THEN \* insertDataSchema.parse throws a ZodError
          /\ Respond(400)
          /\ UNCHANGED <<data, nextId>>
     ELSE /\ nextId < MaxIds
          /\ LET item == createData([tenantId |-> req.tenantId, userId |-> req.userId,
                                     name |-> body.name, status |-> body.status,
                                     requiresApproval |-> body.requiresApproval])
             IN data' = MapSet(data, item.id, item)
          /\ nextId' = nextId + 1
          /\ Respond(201)
  /\ UNCHANGED <<objects, auditLogs>>
  /\ handlerUnchanged

\* router.put('/data/:id'); MemStorage.updateData throws for a missing item
\* and the handler's catch answers 500.
PutData(id, updates) ==
  /\ Current = "handler" /\ req.route = "PUT /data/:id"
  /\ IF getData(id, req.tenantId)
     THEN /\ data' = [data EXCEPT ![id] = applyUpdates(data[id], updates)]
          /\ Respond(200)
     ELSE /\ Respond(500)
          /\ UNCHANGED data
  /\ UNCHANGED <<objects, auditLogs, nextId>>
  /\ handlerUnchanged

\* router.delete('/data/:id')
DeleteData(id) ==
  /\ Current = "handler" /\ req.route = "DELETE /data/:id"
  /\ data' = IF getData(id, req.tenantId) THEN MapDelete(data, id) ELSE data
  /\ Respond(204)
  /\ UNCHANGED <<objects, auditLogs, nextId>>
  /\ handlerUnchanged

\* router.post('/storage/upload')
UploadFile(hasFile, type, outcome, audit) ==
  /\ Current = "handler" /\ req.route = "POST /storage/upload"
  /\ IF ~hasFile
     THEN Respond(400) /\ UNCHANGED <<objects, auditLogs, nextId>>
     ELSE IF outcome = "notConfigured"
     THEN Respond(503) /\ UNCHANGED <<objects, auditLogs, nextId>>
     ELSE IF outcome = "failed"
     THEN Respond(500) /\ UNCHANGED <<objects, auditLogs, nextId>>
     ELSE LET tenantId == Str(req.tenantId)
              key == generateS3Key(tenantId, type, generateFileName(tenantId, type))
          IN /\ objects' = objects \cup {key}
             /\ IF audit = "failed"
                THEN \* the catch of the handler answers 500
                     /\ Respond(500)
                     /\ UNCHANGED <<auditLogs, nextId>>
                ELSE /\ nextId < MaxIds
                     /\ auditLogs' = createAuditLog(
                          [tenantId |-> req.tenantId, userId |-> req.userId,
                           userRole |-> req.role, action |-> "CREATE",
                           resource |-> "storage", resourceId |-> key])
                     /\ nextId' = nextId + 1
                     /\ Respond(200)
  /\ UNCHANGED data
  /\ handlerUnchanged

\* router.post('/storage/signed-url')
SignedUrl(key, outcome) ==
  /\ Current = "handler" /\ req.route = "POST /storage/signed-url"
  /\ IF key = Undefined THEN Respond(400)
     ELSE IF ~includes(key, "/" \o Str(req.tenantId) \o "/") THEN Respond(403)
     ELSE IF outcome = "notConfigured" THEN Respond(503)
     ELSE IF outcome = "failed" THEN Respond(500)
     ELSE Respond(200)
  /\ UNCHANGED <<data, objects, auditLogs, nextId>>
  /\ handlerUnchanged

\* router.get('/storage/download/:key(*)')
DownloadFile(key, outcome) ==
  /\ Current = "handler" /\ req.route = "GET /storage/download"
  /\ IF ~includes(key, "/" \o Str(req.tenantId) \o "/") THEN Respond(403)
     ELSE IF outcome = "notConfigured" THEN Respond(503)
     ELSE IF outcome = "failed" \/ key \notin objects THEN Respond(404)
     ELSE Respond(200)
  /\ UNCHANGED <<data, objects, auditLogs, nextId>>
  /\ handlerUnchanged

\* router.get('/storage/list')
ListFiles(outcome) ==
  /\ Current = "handler" /\ req.route = "GET /storage/list"
  /\ IF outcome = "notConfigured" THEN Respond(503)
     ELSE IF outcome = "failed" THEN Respond(500)
     ELSE Respond(200)
  /\ UNCHANGED <<data, objects, auditLogs, nextId>>
  /\ handlerUnchanged

\* router.delete('/storage/delete/:key(*)')
DeleteFile(key, outcome, audit) ==
  /\ Current = "handler" /\ req.route = "DELETE /storage/delete"
  /\ IF ~includes(key, "/" \o Str(req.tenantId) \o "/")
     THEN Respond(403) /\ UNCHANGED <<objects, auditLogs, nextId>>
     ELSE IF outcome = "notConfigured"
     THEN Respond(503) /\ UNCHANGED <<objects, auditLogs, nextId>>
     ELSE IF outcome = "failed"
     THEN Respond(500) /\ UNCHANGED <<objects, auditLogs, nextId>>
     ELSE /\ objects' = objects \ {key}
          /\ IF audit = "failed"
             THEN \* the catch of the handler answers 500
                  /\ Respond(500)
                  /\ UNCHANGED <<auditLogs, nextId>>
             ELSE /\ nextId < MaxIds
                  /\ auditLogs' = createAuditLog(
                       [tenantId |-> req.tenantId, userId |-> req.userId,
                        userRole |-> req.role, action |-> "DELETE",
                        resource |-> "storage", resourceId |-> key])
                  /\ nextId' = nextId + 1
                  /\ Respond(200)
  /\ UNCHANGED data
  /\ handlerUnchanged

\* router.get('/locations')
GetLocations(outcome) ==
  /\ Current = "handler" /\ req.route = "GET /locations"
  /\ IF Falsy(req.tenantId) THEN Respond(400)
     ELSE IF outcome = "failed" THEN Respond(500)
     ELSE Respond(200)
  /\ UNCHANGED <<data, objects, auditLogs, nextId>>
  /\ handlerUnchanged

\* The handler mounted behind optionalAuth.
OptionalHandler ==
  /\ Current = "handler" /\ req.route = "optionalAuth"
  /\ Respond(200)
  /\ UNCHANGED <<data, objects, auditLogs, nextId>>
  /\ handlerUnchanged

Init ==
  /\ authToken = NoUser
  /\ permissionOverrides = <<>>
  /\ overridesFetch = "idle"
  /\ decision = NoDecision
  /\ store = EmptyMap
  /\ data = EmptyMap
  /\ objects = {}
  /\ auditLogs = <<>>
  /\ nextId = 0
  /\ now = 0
  /\ req = NoReq
  /\ userCache = EmptyMap
  /\ cache = EmptyMap
  /\ served = NoServed
  /\ returned = NoResult
  /\ rows = {}
  /\ upserts = [w \in Writers |-> NoUpsert]

\* Requests of the full service: every guarded route, called without a
\* token and with the unexpired tokens of a SuperAdmin, a Director, a
\* teacher and a principal without role.
ServiceTokens ==
  {t \in Tokens : \/ t.header = "none"
                  \/ /\ t.signature = "valid" /\ t.exp > MaxClock
                     /\ t.payload.userId \in {"u1", "u2", "u3", "u5"}}

\* The service with its stores: requests run through authentication, the
\* permission check and the handlers, which write the data store, the
\* bucket and the audit log.
Next ==
  \/ \E route \in RbacRoutes, token \in ServiceTokens : Receive(route, token)
  \/ authenticateToken
  \/ checkPermission
  \/ uploadSingle
  \/ GetAllData
  \/ \E id \in 1..MaxIds : GetDataById(id)
  \/ \E body \in DataBodies : PostData(body)
  \/ \E id \in 1..MaxIds, updates \in DataUpdates : PutData(id, updates)
  \/ \E id \in 1..MaxIds : DeleteData(id)
  \/ \E hasFile \in BOOLEAN, type \in UploadTypes, outcome \in S3Outcomes,
          audit \in AuditOutcomes :
       UploadFile(hasFile, type, outcome, audit)
  \/ \E key \in RequestKeys \cup {Undefined}, outcome \in S3Outcomes :
       SignedUrl(key, outcome)
  \/ \E key \in RequestKeys, outcome \in S3Outcomes : DownloadFile(key, outcome)
  \/ \E outcome \in S3Outcomes : ListFiles(outcome)
  \/ \E key \in RequestKeys, outcome \in S3Outcomes, audit \in AuditOutcomes :
       DeleteFile(key, outcome, audit)

Spec == Init /\ [][Next]_vars

\* Authentication: every route and every token while the clock runs, in a
\* deployment without S3 credentials (S3Service disabled) whose callers
\* send no valid body, so that the stores stay empty.
NextAuth ==
  \/ \E route \in Routes, token \in Tokens : Receive(route, token)
  \/ Tick
  \/ authenticateToken
  \/ optionalAuth
  \/ checkPermission
  \/ uploadSingle
  \/ GetAllData
  \/ \E id \in 1..MaxIds : GetDataById(id)
  \/ \E body \in {b \in DataBodies : b.name = Undefined} : PostData(body)
  \/ \E id \in 1..MaxIds, updates \in DataUpdates : PutData(id, updates)
  \/ \E id \in 1..MaxIds : DeleteData(id)
  \/ \E hasFile \in BOOLEAN, type \in UploadTypes : UploadFile(hasFile, type, "notConfigured", "ok")
  \/ \E key \in RequestKeys \cup {Undefined} : SignedUrl(key, "notConfigured")
  \/ \E key \in RequestKeys : DownloadFile(key, "notConfigured")
  \/ ListFiles("notConfigured")
  \/ \E key \in RequestKeys : DeleteFile(key, "notConfigured", "ok")
  \/ \E outcome \in {"ok", "failed"} : GetLocations(outcome)
  \/ OptionalHandler

SpecAuth == Init /\ [][NextAuth]_vars

\* The delete route of the data API with the administration of overrides.
NextOverride ==
  \/ \E token \in {t \in Tokens : t.signature = "valid" /\ t.exp > MaxClock} :
       Receive("DELETE /data/:id", token)
  \/ authenticateToken
  \/ checkPermission
  \/ \E id \in 1..MaxIds : DeleteData(id)
  \/ \E override \in OverrideInputs : upsertPermissionOverride(override)
  \/ \E id \in 1..MaxIds, tenantId \in Tenants : deletePermissionOverride(id, tenantId)

SpecOverride == Init /\ [][NextOverride]_vars

\* Permission resolution: the browser session with its cached overrides,
\* and calls of the server's checkUserPermission.
NextResolve ==
  \/ \E user \in ClientUsers : setAuthToken(user)
  \/ clearAuthToken
  \/ OverridesFetchFailed
  \/ \E overrides \in OverrideArrays : setPermissionOverrides(overrides)
  \/ \E permission \in ClientPermissions : ClientCheck(permission)
  \/ \E role \in RoleNames, p \in ServerPermissions :
       PermissionCheck("u1", role, p[1], p[2], "t1")

SpecResolve == Init /\ [][NextResolve]_vars

\* The audit log of the storage: appends, queries of both storages and the
\* clock.
NextAudit ==
  \/ \E log \in AuditInputs : CreateAuditLog(log)
  \/ \E params \in AuditQueries : GetAuditLogs(params)
  \/ \E params \in AuditQueries : DbGetAuditLogs(params)
  \/ Tick

SpecAudit == Init /\ [][NextAudit]_vars

\* MemStorage.upsertUserCache(user)
upsertUserCache(user) ==
  /\ userCache' =
       MapSet(userCache, user.id,
              [id |-> user.id, tenantId |-> user.tenantId, role |-> user.role,
               lastSeen |-> now,
               createdAt |-> IF user.id \in DOMAIN userCache
                             THEN userCache[user.id].createdAt ELSE now,
               updatedAt |-> now])
  /\ returned' = NoResult
  /\ UNCHANGED <<store, data, objects, auditLogs, nextId, now, req, cache, served,
                 rows, upserts>>
  /\ clientUnchanged

\* storage.createData(data), called on MemStorage.
MemCreateData(d) ==
  /\ nextId < MaxIds
  /\ data' = MapSet(data, createData(d).id, createData(d))
  /\ nextId' = nextId + 1
  /\ returned' = NoResult
  /\ UNCHANGED <<store, objects, auditLogs, now, req, userCache, cache, served, rows, upserts>>
  /\ clientUnchanged

\* MemStorage.updateData(id, tenantId, updates); throws for a missing item.
updateData(id, tenantId, updates) ==
  /\ data' = IF getData(id, tenantId)
             THEN [data EXCEPT ![id] = applyUpdates(data[id], updates)]
             ELSE data
  /\ returned' = NoResult
  /\ UNCHANGED <<store, objects, auditLogs, nextId, now, req, userCache, cache, served, rows,
                 upserts>>
  /\ clientUnchanged

\* MemStorage.deleteData(id, tenantId)
deleteData(id, tenantId) ==
  /\ data' = IF getData(id, tenantId) THEN MapDelete(data, id) ELSE data
  /\ returned' = NoResult
  /\ UNCHANGED <<store, objects, auditLogs, nextId, now, req, userCache, cache, served, rows,
                 upserts>>
  /\ clientUnchanged

\* MemStorage.approveData(id, tenantId, approverId); throws for a missing
\* item.
approveData(id, tenantId, approverId) ==
  /\ data' = IF getData(id, tenantId)
             THEN [data EXCEPT ![id].status = "approved",
                               ![id].approvedBy = approverId]
             ELSE data
  /\ returned' = NoResult
  /\ UNCHANGED <<store, objects, auditLogs, nextId, now, req, userCache, cache, served, rows,
                 upserts>>
  /\ clientUnchanged

\* The audit inputs without an id or timestamp property of their own.
PlainAuditInputs ==
  {log \in AuditInputs : "id" \notin DOMAIN log /\ "timestamp" \notin DOMAIN log}

\* Every operation of MemStorage, called directly.
NextStorage ==
  \/ \E log \in {l \in PlainAuditInputs : l.userId = "u1"} : CreateAuditLog(log)
  \/ GetAuditLogs([tenantId |-> "t1", userId |-> Undefined, resource |-> Undefined,
                   action |-> Undefined, limit |-> 0, offset |-> 0])
  \/ \E override \in OverrideInputs : upsertPermissionOverride(override)
  \/ \E id \in 1..MaxIds : deletePermissionOverride(id, "t1")
  \/ upsertUserCache([id |-> "u1", tenantId |-> "t1", role |-> "Admin"])
  \/ MemCreateData([tenantId |-> "t1", userId |-> "u1", name |-> "n",
                    status |-> Undefined, requiresApproval |-> FALSE])
  \/ \E id \in 1..MaxIds, updates \in DataUpdates : updateData(id, "t1", updates)
  \/ \E id \in 1..MaxIds : deleteData(id, "t1")
  \/ \E id \in 1..MaxIds : approveData(id, "t1", "u1")
  \/ Tick

SpecStorage == Init /\ [][NextStorage]_vars

\* Deactivation of overrides: the browser is handed override arrays and asks
\* for decisions while the administration surface writes and deletes
\* overrides of tenant t1.
NextInactive ==
  \/ \E user \in {u \in ClientUsers : u.role \in {"SuperAdmin", "admin", "teacher"}} :
       setAuthToken(user)
  \/ \E overrides \in OverrideArrays : setPermissionOverrides(overrides)
  \/ \E permission \in {"data.delete", "feature3.access"} : ClientCheck(permission)
  \/ \E override \in {o \in OverrideInputs : o.tenantId = "t1"} :
       upsertPermissionOverride(override)
  \/ \E id \in 1..MaxIds : deletePermissionOverride(id, "t1")

SpecInactive == Init /\ [][NextInactive]_vars

(***************************************************************************)
(* DatabaseStorage: the override table.  rows is the content of            *)
(* tenant_permission_overrides, which has a primary key on id and no       *)
(* unique index on (tenant_id, permission).  An upsert is two statements   *)
(* with an await between them: upserts[w] holds the call of writer w.      *)
(***************************************************************************)
\* Overrides written through DatabaseStorage: two active ones for the same
\* pair that differ in their roles, and an inactive one.
DbOverrideInputs ==
  { [tenantId |-> "t1", permission |-> "data.delete", rolesRequired |-> {},
     autoApproveRoles |-> {"admin"}, active |-> "true"],
    [tenantId |-> "t1", permission |-> "data.delete", rolesRequired |-> {"teacher"},
     autoApproveRoles |-> {}, active |-> "true"],
    [tenantId |-> "t1", permission |-> "data.delete", rolesRequired |-> {"director"},
     autoApproveRoles |-> {"admin"}, active |-> "false"] }

\* DatabaseStorage.getPermissionOverride(tenantId, permission): the ids the
\* select with limit(1) can answer with; {0} stands for null.
DbGetPermissionOverride(tenantId, permission) ==
  LET hits == {r \in rows : /\ r.tenantId = tenantId
                            /\ r.permission = permission
                            /\ r.active = "true"}
  IN IF hits = {} THEN {0} ELSE {r.id : r \in hits}

\* DatabaseStorage.upsertPermissionOverride(override), up to the await of
\* the lookup.
DbUpsertLookup(w, override) ==
  /\ upserts[w].pc # "found"
  /\ \E existing \in DbGetPermissionOverride(override.tenantId, override.permission) :
       upserts' = [upserts EXCEPT ![w] =
                     [pc |-> "found", tenantId |-> override.tenantId,
                      permission |-> override.permission,
                      rolesRequired |-> override.rolesRequired,
                      autoApproveRoles |-> override.autoApproveRoles,
                      active |-> override.active, existing |-> existing]]
  /\ returned' = NoResult
  /\ UNCHANGED <<store, data, objects, auditLogs, nextId, now, req, userCache, cache, served, rows>>
  /\ clientUnchanged

\* DatabaseStorage.upsertPermissionOverride(override), after the lookup:
\* update ... where id = existing.id, or insert.
DbUpsertWrite(w) ==
  /\ upserts[w].pc = "found"
  /\ LET u == upserts[w]
     IN IF u.existing # 0
        THEN /\ rows' = {IF r.id = u.existing
                         THEN [r EXCEPT !.tenantId = u.tenantId,
                                        !.permission = u.permission,
                                        !.rolesRequired = u.rolesRequired,
                                        !.autoApproveRoles = u.autoApproveRoles,
                                        !.active = u.active,
                                        !.updatedAt = now]
                         ELSE r : r \in rows}
             /\ UNCHANGED nextId
        ELSE /\ nextId < MaxIds
             /\ rows' = rows \cup
                          {[id |-> nextId + 1, tenantId |-> u.tenantId,
                            permission |-> u.permission,
                            rolesRequired |-> u.rolesRequired,
                            autoApproveRoles |-> u.autoApproveRoles,
                            active |-> u.active,
                            createdAt |-> now, updatedAt |-> now]}
             /\ nextId' = nextId + 1
  /\ upserts' = [upserts EXCEPT ![w].pc = "done"]
  /\ returned' = NoResult
  /\ UNCHANGED <<store, data, objects, auditLogs, now, req, userCache, cache, served>>
  /\ clientUnchanged

\* DatabaseStorage.deletePermissionOverride(id, tenantId)
DbDeletePermissionOverride(id, tenantId) ==
  /\ \E r \in rows : r.id = id /\ r.tenantId = tenantId
  /\ rows' = {r \in rows : ~(r.id = id /\ r.tenantId = tenantId)}
  /\ returned' = NoResult
  /\ UNCHANGED <<store, data, objects, auditLogs, nextId, now, req, userCache, cache, served,
                 upserts>>
  /\ clientUnchanged

\* No upsert of DatabaseStorage is between its lookup and its write.
NoUpsertInFlight == \A w \in Writers : upserts[w].pc # "found"

\* Override writes one after the other, on both storages: every call runs
\* to its end before the next one starts.
NextDbSeq ==
  \/ \E override \in DbOverrideInputs :
       NoUpsertInFlight /\ DbUpsertLookup("w1", override)
  \/ DbUpsertWrite("w1")
  \/ \E id \in 1..MaxIds :
       NoUpsertInFlight /\ DbDeletePermissionOverride(id, "t1")
  \/ \E override \in {o \in OverrideInputs : o.tenantId = "t1"} :
       NoUpsertInFlight /\ upsertPermissionOverride(override)
  \/ \E id \in 1..MaxIds :
       NoUpsertInFlight /\ deletePermissionOverride(id, "t1")
  \/ NoUpsertInFlight /\ Tick

SpecDbSeq == Init /\ [][NextDbSeq]_vars

\* Two administrators write active overrides through DatabaseStorage; the
\* statements of their calls interleave.
NextDb ==
  \/ \E w \in Writers, override \in {o \in DbOverrideInputs : o.active = "true"} :
       DbUpsertLookup(w, override)
  \/ \E w \in Writers : DbUpsertWrite(w)
  \/ Tick

SpecDb == Init /\ [][NextDb]_vars

(***************************************************************************)
(* The data routes with request bodies that name the approval fields.      *)
(***************************************************************************)
\* Principals of tenant t1: an assistant director (data.create, data.read,
\* data.update by name) and a director (data.manage).
DataPayloads ==
  { [userId |-> "u7", role |-> "assistant_director", tenantId |-> "t1"],
    [userId |-> "u2", role |-> "Director", tenantId |-> "t1"] }

DataTokens ==
  [header : {"token"}, form : {"jwt"}, signature : {"valid"},
   exp : {MaxClock + 1}, payload : DataPayloads]

\* Bodies of POST /data that pass insertDataSchema: status is any text,
\* requiresApproval any boolean.
DataCreateBodies ==
  [name : {"n"}, status : {Undefined, "approved"}, requiresApproval : BOOLEAN]

\* Bodies of PUT /data/:id; nothing validates them.
DataUpdateBodies ==
  { [status |-> "archived", approvedBy |-> Undefined, tenantId |-> Undefined],
    [status |-> "draft", approvedBy |-> Undefined, tenantId |-> "t2"],
    [status |-> "approved", approvedBy |-> "u7", tenantId |-> Undefined] }

NextData ==
  \/ \E route \in {"POST /data", "PUT /data/:id", "DELETE /data/:id"},
        token \in DataTokens : Receive(route, token)
  \/ authenticateToken
  \/ checkPermission
  \/ \E body \in DataCreateBodies : PostData(body)
  \/ \E id \in 1..MaxIds, updates \in DataUpdateBodies : PutData(id, updates)
  \/ \E id \in 1..MaxIds : DeleteData(id)

SpecData == Init /\ [][NextData]_vars

(***************************************************************************)
(* Tenant scope of the data operations, on both storages.  The database    *)
(* operations act on the same records (data is the content of the data     *)
(* table).                                                                 *)
(***************************************************************************)
\* Parameters of getAllData (locationId is not modelled).
DataQueries == [tenantId : Tenants, userId : {Undefined}, status : {Undefined, "draft"}]

\* MemStorage.getAllData(params): the records returned.
getAllData(params) ==
  {data[id] : id \in {i \in DOMAIN data :
                        /\ data[i].tenantId = params.tenantId
                        /\ (Falsy(params.userId) \/ data[i].userId = params.userId)
                        /\ (Falsy(params.status) \/ data[i].status = params.status)}}

\* DatabaseStorage.getAllData(params): .where() is called again for every
\* supplied filter on the same select, and the clause set last is the one
\* the query runs with.
DbGetAllData(params) ==
  {data[id] : id \in {i \in DOMAIN data :
                        IF ~Falsy(params.status) THEN data[i].status = params.status
                        ELSE IF ~Falsy(params.userId)
                             THEN data[i].userId = params.userId
                        ELSE data[i].tenantId = params.tenantId}}

\* DatabaseStorage.updateData(id, tenantId, updates):
\* update data set ...updates where id = id and tenant_id = tenantId.
DbUpdateData(id, tenantId, updates) ==
  /\ getData(id, tenantId)
  /\ data' = [data EXCEPT
                ![id].status = IF updates.status = Undefined THEN @
                               ELSE updates.status,
                ![id].approvedBy = IF updates.approvedBy = Undefined THEN @
                                   ELSE updates.approvedBy,
                ![id].tenantId = IF updates.tenantId = Undefined THEN @
                                 ELSE updates.tenantId]
  /\ returned' = NoResult
  /\ UNCHANGED <<store, objects, auditLogs, nextId, now, req, userCache, cache, served, rows,
                 upserts>>
  /\ clientUnchanged

\* Records are created for both tenants; every other call is made for
\* tenant t1.
NextTenant ==
  \/ \E tenantId \in Tenants :
       MemCreateData([tenantId |-> tenantId, userId |-> "u1", name |-> "n",
                      status |-> Undefined, requiresApproval |-> FALSE])
  \/ \E id \in 1..MaxIds, updates \in DataUpdateBodies : updateData(id, "t1", updates)
  \/ \E id \in 1..MaxIds, updates \in DataUpdateBodies : DbUpdateData(id, "t1", updates)
  \/ \E id \in 1..MaxIds : deleteData(id, "t1")
  \/ \E id \in 1..MaxIds : approveData(id, "t1", "u1")
  \/ Tick

SpecTenant == Init /\ [][NextTenant]_vars

(***************************************************************************)
(* Override writes for tenant ids and permission names that contain '-'.   *)
(***************************************************************************)
\* Overrides of three pairs; the template literal `${tenantId}-${permission}`
\* gives "t1-data-export" for the first two.
KeyOverrideInputs ==
  [tenantId : {"t1"}, permission : {"data-export"}, rolesRequired : {{}, {"teacher"}},
   autoApproveRoles : {{}}, active : {"true"}]
  \cup
  [tenantId : {"t1-data"}, permission : {"export"}, rolesRequired : {{}, {"director"}},
   autoApproveRoles : {{}}, active : {"true"}]
  \cup
  [tenantId : {"t2"}, permission : {"data.delete"}, rolesRequired : {{}, {"teacher"}},
   autoApproveRoles : {{}}, active : {"true", "false"}]

NextKeys ==
  \/ \E override \in KeyOverrideInputs : upsertPermissionOverride(override)
  \/ \E id \in 1..MaxIds, tenantId \in {"t1", "t1-data", "t2"} :
       deletePermissionOverride(id, tenantId)
  \/ Tick

SpecKeys == Init /\ [][NextKeys]_vars

(***************************************************************************)
(* MySQLService: the cache in front of the parent database.                *)
(***************************************************************************)
\* CACHE_TTL (5 minutes), in ticks of the clock: a tick is five minutes.
CACHE_TTL == 1

\* The characters TENANT_ID_PATTERN = /^[a-zA-Z0-9_-]+$/ accepts.
TENANT_ID_PATTERN ==
  {"a", "b", "c", "d", "e", "f", "g", "h", "i", "j", "k", "l", "m", "n", "o",
   "p", "q", "r", "s", "t", "u", "v", "w", "x", "y", "z",
   "A", "B", "C", "D", "E", "F", "G", "H", "I", "J", "K", "L", "M", "N", "O",
   "P", "Q", "R", "S", "T", "U", "V", "W", "X", "Y", "Z",
   "0", "1", "2", "3", "4", "5", "6", "7", "8", "9", "_", "-"}

\* validateTenantId(tenantId): TRUE when it does not throw.
validateTenantId(tenantId) ==
  /\ ~Falsy(tenantId)
  /\ \A i \in 1..Len(tenantId) : SubSeq(tenantId, i, i) \in TENANT_ID_PATTERN

\* isCacheValid(this.cache.get(cacheKey))
isCacheValid(cacheKey) ==
  /\ cacheKey \in DOMAIN cache
  /\ now - cache[cacheKey].timestamp < CACHE_TTL

\* The rows a query on the tenant's database gives, mapped as the service
\* maps them: each row names the tenant whose database it was read from.
ParentRows(query, tenantId, locationId) ==
  {[query |-> query, tenantId |-> tenantId, locationId |-> locationId]}

\* The body shared by getLocations, getRooms and getTags: answer from a
\* valid cache entry, else query the tenant's database and cache the rows.
CachedQuery(call, cacheKey, tenantId, locationId) ==
  IF ~validateTenantId(tenantId)
  THEN \* throws Invalid tenant ID
       /\ served' = [call |-> call, tenantId |-> tenantId, data |-> {}]
       /\ UNCHANGED cache
  ELSE IF isCacheValid(cacheKey)
  THEN /\ served' = [call |-> call, tenantId |-> tenantId,
                     data |-> cache[cacheKey].data]
       /\ UNCHANGED cache
  ELSE /\ cache' = MapSet(cache, cacheKey,
                          [data |-> ParentRows(call, tenantId, locationId),
                           timestamp |-> now])
       /\ served' = [call |-> call, tenantId |-> tenantId,
                     data |-> ParentRows(call, tenantId, locationId)]

\* MySQLService.getLocations(tenantId)
getLocations(tenantId) ==
  /\ CachedQuery("getLocations", "locations_" \o Str(tenantId), tenantId, Undefined)
  /\ UNCHANGED <<store, data, objects, auditLogs, nextId, now, req, userCache,
                 returned, rows, upserts>>
  /\ clientUnchanged

\* MySQLService.getRooms(tenantId, locationId)
getRooms(tenantId, locationId) ==
  /\ CachedQuery("getRooms",
                 IF ~Falsy(locationId)
                 THEN "rooms_" \o Str(tenantId) \o "_" \o locationId
                 ELSE "rooms_" \o Str(tenantId) \o "_all",
                 tenantId, locationId)
  /\ UNCHANGED <<store, data, objects, auditLogs, nextId, now, req, userCache,
                 returned, rows, upserts>>
  /\ clientUnchanged

\* MySQLService.getTags(tenantId)
getTags(tenantId) ==
  /\ CachedQuery("getTags", "tags_" \o Str(tenantId), tenantId, Undefined)
  /\ UNCHANGED <<store, data, objects, auditLogs, nextId, now, req, userCache,
                 returned, rows, upserts>>
  /\ clientUnchanged

\* MySQLService.clearCache(tenantId); Undefined is the call without argument.
clearCache(tenantId) ==
  /\ cache' = IF ~Falsy(tenantId)
              THEN [k \in {x \in DOMAIN cache : ~includes(x, tenantId)} |-> cache[k]]
              ELSE EmptyMap
  /\ served' = [call |-> "clearCache", tenantId |-> tenantId, data |-> {}]
  /\ UNCHANGED <<store, data, objects, auditLogs, nextId, now, req, userCache,
                 returned, rows, upserts>>
  /\ clientUnchanged

\* Tenant ids handed to the parent-database service: tenant a (whose
\* location b_all is asked for), tenant a_b, and one the pattern rejects.
ParentTenants == {"a", "a_b", "a;b"}

\* Reads of the parent database for these tenants.
NextParent ==
  \/ \E tenantId \in ParentTenants : getLocations(tenantId)
  \/ \E tenantId \in ParentTenants, locationId \in {Undefined, "b_all"} :
       getRooms(tenantId, locationId)
  \/ \E tenantId \in ParentTenants : getTags(tenantId)
  \/ Tick

SpecParent == Init /\ [][NextParent]_vars

\* Tenants t1 and t10 read through the cache, and the cache is cleared.
NextClear ==
  \/ \E tenantId \in {"t1", "t10"} : getLocations(tenantId)
  \/ \E tenantId \in {"t1", "t10"} : getRooms(tenantId, Undefined)
  \/ \E tenantId \in {"t1", "t10"} : getTags(tenantId)
  \/ \E tenantId \in {"t1", "t10", Undefined} : clearCache(tenantId)
  \/ Tick

SpecClear == Init /\ [][NextClear]_vars

(***************************************************************************)
(* Object keys across tenants: principals of two tenants upload, and ask   *)
(* for objects that the other tenant uploaded.                             *)
(***************************************************************************)
ObjectTokens ==
  [header : {"token"}, form : {"jwt"}, signature : {"valid"},
   exp : {MaxClock + 1},
   payload : {[userId |-> "u1", role |-> "SuperAdmin", tenantId |-> "t1"],
              [userId |-> "u9", role |-> "SuperAdmin", tenantId |-> "t2"]}]

\* req.body.type || req.query.type || 'document': any text the caller sends.
ObjectTypes == {"document", "t1"}

\* The stored keys that an upload of another tenant than tenantId created,
\* by the audit entries of the uploads.
ForeignKeys(tenantId) ==
  {key \in objects :
     \E i \in 1..Len(auditLogs) : /\ auditLogs[i].action = "CREATE"
                                  /\ auditLogs[i].resourceId = key
                                  /\ auditLogs[i].tenantId # tenantId}

NextObjects ==
  \/ \E route \in {"POST /storage/upload", "POST /storage/signed-url",
                   "GET /storage/download", "DELETE /storage/delete"},
        token \in ObjectTokens : Receive(route, token)
  \/ authenticateToken
  \/ checkPermission
  \/ uploadSingle
  \/ \E type \in ObjectTypes : UploadFile(TRUE, type, "ok", "ok")
  \/ \E key \in ForeignKeys(req.tenantId), outcome \in {"ok", "notConfigured"} :
       SignedUrl(key, outcome)
  \/ \E key \in ForeignKeys(req.tenantId), outcome \in {"ok", "notConfigured"} :
       DownloadFile(key, outcome)
  \/ \E key \in ForeignKeys(req.tenantId), outcome \in {"ok", "notConfigured"} :
       DeleteFile(key, outcome, "ok")
  \/ Tick

SpecObjects == Init /\ [][NextObjects]_vars

(***************************************************************************)
(* The browser's copy of the overrides.  App fetches                       *)
(* /api/permissions/overrides once, in its mount effect, and hands the     *)
(* array to setPermissionOverrides; the module-level array is read by      *)
(* every later hasPermission call.                                         *)
(***************************************************************************)
\* MemStorage.getPermissionOverrides(tenantId) as the array the browser is
\* answered with: the active records of the tenant (one permission is
\* written in this model, so the array has at most one element).
getPermissionOverrides(tenantId) ==
  LET hits == {k \in DOMAIN store :
                 store[k].tenantId = tenantId /\ store[k].active = "true"}
  IN IF hits = {} THEN <<>>
     ELSE LET p == store[CHOOSE k \in hits : TRUE]
          IN <<[permission |-> p.permission, rolesRequired |-> p.rolesRequired,
                autoApproveRoles |-> p.autoApproveRoles, active |-> p.active]>>

\* The fetch of App's mount effect answers with the tenant's overrides.
FetchOverrides ==
  /\ authToken.decoded
  /\ setPermissionOverrides(getPermissionOverrides(authToken.tenantId))

\* A browser session of tenant t1 next to an administrator who writes the
\* tenant's override; the clock runs.
NextCache ==
  \/ \E user \in {u \in ClientUsers : u.role \in {"admin", "teacher"}} :
       setAuthToken(user)
  \/ FetchOverrides
  \/ \E permission \in {"data.delete", "feature3.access"} : ClientCheck(permission)
  \/ \E override \in {o \in OverrideInputs : o.tenantId = "t1"} :
       upsertPermissionOverride(override)
  \/ \E id \in 1..MaxIds : deletePermissionOverride(id, "t1")
  \/ Tick

\* The page keeps running: pending fetches complete, components keep asking
\* for decisions and time passes.  Nothing makes the user log in again.
SpecCache ==
  /\ Init /\ [][NextCache]_vars
  /\ WF_vars(FetchOverrides)
  /\ WF_vars(\E permission \in {"data.delete", "feature3.access"} :
               ClientCheck(permission))
  /\ WF_vars(Tick)

(***************************************************************************)
(* Properties of permission resolution.                                    *)
(***************************************************************************)
\* C1: a permission resolved for a principal whose role is the super-role
\* SuperAdmin is allowed and needs no approval, for every permission name,
\* by the server's check and by the browser's helpers, also while an active
\* override for the permission is cached that does not list the role.
C1_SuperRoleAlwaysAllowed ==
  decision.side # "none" /\ decision.role = "SuperAdmin"
    => decision.allowed /\ ~decision.requiresApproval

\* A SuperAdmin session asked for data.delete while an active override on
\* data.delete is cached (no override of the model lists SuperAdmin).
C1_Witness ==
  /\ decision.side = "client"
  /\ decision.role = "SuperAdmin"
  /\ decision.permission = "data.delete"
  /\ \E i \in 1..Len(permissionOverrides) :
       /\ permissionOverrides[i].permission = "data.delete"
       /\ permissionOverrides[i].active = "true"
       /\ "SuperAdmin" \notin (permissionOverrides[i].rolesRequired
                               \cup permissionOverrides[i].autoApproveRoles)
  /\ decision.allowed
  /\ ~decision.requiresApproval

\* C2: for a non-super role, when an active override is stored for the
\* tenant and the permission of the route, the permission check of the
\* request decides as the override does (the role is let through exactly
\* when it is in rolesRequired or autoApproveRoles), also where the static
\* matrix says the opposite.
C2_OverrideWinsOverMatrix ==
  [][ ( /\ Current = "checkPermission"
        /\ req' # req
        /\ ~Falsy(req.userId) /\ ~Falsy(req.role)
        /\ req.role # "SuperAdmin"
        /\ getPermissionOverride(req.tenantId, "data.delete") # {} )
      => \A o \in getPermissionOverride(req.tenantId, "data.delete") :
           LET allowed == req.role \in (o.rolesRequired \cup o.autoApproveRoles)
           IN /\ allowed => /\ req'.status = 0
                            /\ req'.permissionCheck.set
                            /\ req'.permissionCheck.hasPermission
                            /\ req'.permissionCheck.requiresApproval
                                 = (req.role \notin o.autoApproveRoles)
              /\ ~allowed => req'.status = 403 ]_vars

\* C3: on the override path (a non-super role, an active override cached
\* for the permission), allowed = role in rolesRequired or autoApproveRoles
\* and requiresApproval = allowed and role not in autoApproveRoles.
C3_OverridePathPair ==
  LET override == find(permissionOverrides, decision.permission)
  IN ( /\ decision.side = "client"
       /\ ~Falsy(decision.role)
       /\ decision.role # "SuperAdmin"
       /\ override # 0 )
     => LET o == permissionOverrides[override]
            allowed == decision.role \in (o.rolesRequired \cup o.autoApproveRoles)
        IN /\ decision.allowed = allowed
           /\ decision.requiresApproval
                = (allowed /\ decision.role \notin o.autoApproveRoles)

\* C4: default deny.  For a role other than the super-role and a permission
\* resource.action, when no active override applies and neither
\* resource.action nor resource.manage is in the matrix entry of the role
\* (a role without entry included), the check answers allowed = false.
C4_DefaultDeny ==
  LET permission == decision.permission
      dot == CHOOSE i \in 1..Len(permission) : SubSeq(permission, i, i) = "."
      manage == SubSeq(permission, 1, dot - 1) \o ".manage"
      serverEntry == defaultPermissions(toLowerCase(decision.role))
      clientEntry == {p \in DOMAIN PERMISSIONS : decision.role \in PERMISSIONS[p]}
      override == find(permissionOverrides, permission)
  IN /\ ( /\ decision.side = "server"
          /\ toLowerCase(decision.role) # "superadmin"
          /\ permission \notin serverEntry
          /\ manage \notin serverEntry )
        => ~decision.allowed
     /\ ( /\ decision.side = "client"
          /\ decision.role # "SuperAdmin"
          /\ override = 0
          /\ permission \notin clientEntry
          /\ manage \notin clientEntry )
        => ~decision.allowed

\* The server was asked for storage.read on behalf of a parent, a role
\* without matrix entry, and denied it.
C4_Witness ==
  /\ decision.side = "server"
  /\ decision.role = "parent"
  /\ decision.permission = "storage.read"
  /\ defaultPermissions("parent") = {}
  /\ ~decision.allowed

\* C5: the pair is consistent for every principal (an absent or role-less
\* one included), permission and override state: allowed = false together
\* with requiresApproval = true is never produced.
C5_PairConsistent ==
  decision.side # "none" /\ decision.requiresApproval => decision.allowed

\* C6: on the static path (a non-super role, no active override for the
\* permission), allowed holds exactly when the permission or the wildcard
\* resource.manage is in the matrix entry of the role, and requiresApproval
\* is false for every role.
C6_StaticPath ==
  LET permission == decision.permission
      dot == CHOOSE i \in 1..Len(permission) : SubSeq(permission, i, i) = "."
      manage == SubSeq(permission, 1, dot - 1) \o ".manage"
      serverEntry == defaultPermissions(toLowerCase(decision.role))
      clientEntry == {p \in DOMAIN PERMISSIONS : decision.role \in PERMISSIONS[p]}
      override == find(permissionOverrides, permission)
  IN /\ ( /\ decision.side = "server"
          /\ toLowerCase(decision.role) # "superadmin" )
        => /\ decision.allowed = (permission \in serverEntry \/ manage \in serverEntry)
           /\ ~decision.requiresApproval
     /\ ( /\ decision.side = "client"
          /\ ~Falsy(decision.role)
          /\ decision.role # "SuperAdmin"
          /\ override = 0 )
        => /\ decision.allowed = (permission \in clientEntry \/ manage \in clientEntry)
           /\ ~decision.requiresApproval

C8_ExpiredWhateverSignature ==
  [][ ( /\ Current = "authenticateToken"
        /\ req' # req
        /\ req.token.header = "token"
        /\ req.token.form = "jwt"
        /\ req.token.exp < now )
      => req'.status = 401 ]_vars

\* C8 as amended: such a token is rejected as expired (401) when its
\* signature verifies; a token whose signature does not verify is rejected
\* as invalid (403), whatever its exp claim.
C8_ExpiredWhenSignatureValid ==
  [][ ( /\ Current = "authenticateToken"
        /\ req' # req
        /\ req.token.header = "token"
        /\ req.token.form = "jwt" )
      => /\ (req.token.signature = "valid" /\ req.token.exp < now)
              => req'.status = 401
         /\ req.token.signature # "valid" => req'.status = 403 ]_vars

\* A correctly signed token whose exp claim lies in the past was answered
\* with 401.
C8_Witness ==
  /\ req.token.header = "token"
  /\ req.token.form = "jwt"
  /\ req.token.signature = "valid"
  /\ req.token.exp < now
  /\ Chain(req.route)[req.step] = "authenticateToken"
  /\ req.status = 401

\* C9: every failure of token validation (missing, malformed, wrongly
\* signed or expired token) is answered with 401, and 403 is answered only
\* when the permission check of a validated principal denied.
C9_ResponseMapping ==
  [][ /\ ( /\ Current = "authenticateToken"
           /\ req' # req
           /\ (req.token.header # "token" \/ verify(req.token) # "ok") )
         => req'.status = 401
      /\ (req.status = 0 /\ req'.status = 403)
         => /\ Current = "checkPermission"
            /\ ~Falsy(req.userId) /\ ~Falsy(req.role) ]_vars

\* C10: on every route that mounts checkPermission the order is
\* authentication, permission check, handler: the handler is reached only
\* with the principal of a validated token attached and a permission check
\* that allowed; the data store, the bucket and the audit log change only
\* in a handler step of such a request, and a step that answers 401 or 403
\* leaves them unchanged.
C10_ChainOrder ==
  /\ [] ( (req.route \in RbacRoutes /\ req.step >= 1)
          => /\ req.step >= 2
                  => /\ req.token.header = "token"
                     /\ req.token.form = "jwt"
                     /\ req.token.signature = "valid"
                     /\ req.userId = req.token.payload.userId
                     /\ req.role = req.token.payload.role
                     /\ req.tenantId = req.token.payload.tenantId
             /\ Chain(req.route)[req.step] \in {"upload.single", "handler"}
                  => /\ req.step >= 3
                     /\ req.permissionCheck.set
                     /\ req.permissionCheck.hasPermission )
  /\ [][ /\ <<data, objects, auditLogs>>' # <<data, objects, auditLogs>>
            => /\ req.route \in RbacRoutes
               /\ Current = "handler"
               /\ req.token.signature = "valid"
               /\ req.permissionCheck.set
               /\ req.permissionCheck.hasPermission
         /\ (req.status = 0 /\ req'.status \in {401, 403})
            => UNCHANGED <<data, objects, auditLogs>> ]_vars

\* With an item stored and an object in the bucket, a request was denied
\* by the permission check.
C10_Witness ==
  /\ req.route \in RbacRoutes
  /\ Chain(req.route)[req.step] = "checkPermission"
  /\ req.status = 403
  /\ data # EmptyMap
  /\ objects # {}
  /\ auditLogs # <<>>

(***************************************************************************)
(* Properties of the audit trail of the routes.                            *)
(***************************************************************************)
\* C11: every mutating action that completes successfully (data create,
\* update and delete, file upload and delete) has appended an audit entry
\* for that tenant, user, action and resource when success is reported.
C11_MutationsAudited ==
  [][ ( /\ req.status = 0
        /\ req'.status \in {200, 201, 204}
        /\ req.route \in {"POST /data", "PUT /data/:id", "DELETE /data/:id",
                          "POST /storage/upload", "DELETE /storage/delete"} )
      => /\ Len(auditLogs') = Len(auditLogs) + 1
         /\ auditLogs'[Len(auditLogs')].tenantId = req.tenantId
         /\ auditLogs'[Len(auditLogs')].userId = req.userId
         /\ auditLogs'[Len(auditLogs')].action
              = (CASE req.route \in {"POST /data", "POST /storage/upload"} -> "CREATE"
                   [] req.route = "PUT /data/:id" -> "UPDATE"
                   [] OTHER -> "DELETE")
         /\ auditLogs'[Len(auditLogs')].resource
              = (IF req.route \in {"POST /storage/upload", "DELETE /storage/delete"}
                 THEN "storage" ELSE "data") ]_vars

\* C12: when the audit append of a mutating operation fails, the operation
\* is reported as failed and its effect does not persist: a step that
\* answers an upload or a file deletion with an error leaves the bucket as
\* it was.
C12_FailedAuditUndoesEffect ==
  [][ ( /\ req.status = 0
        /\ req'.status >= 400
        /\ req.route \in {"POST /storage/upload", "DELETE /storage/delete"} )
      => objects' = objects ]_vars

\* C17: the principal of a successful validation carries a non-empty
\* tenantId: a request whose validly signed, unexpired token has no (or an
\* empty) tenantId claim is not passed on by authenticateToken to the
\* permission check or to a handler.
C17_PrincipalHasTenant ==
  ( /\ req.route \in Routes
    /\ Chain(req.route)[1] = "authenticateToken"
    /\ req.step >= 2 )
  => ~Falsy(req.tenantId)

(***************************************************************************)
(* Properties of the audit log of the storage.                             *)
(***************************************************************************)
\* C13: an audit append assigns the id and the timestamp itself at write
\* time, whatever id or timestamp the input carries; any two stored entries
\* have distinct ids, and of two entries of one tenant the later one's
\* timestamp is not smaller.
C13_AuditIdsAssigned ==
  /\ [] ( /\ \A i, j \in 1..Len(auditLogs) :
               i # j => auditLogs[i].id # auditLogs[j].id
          /\ \A i, j \in 1..Len(auditLogs) :
               (i < j /\ auditLogs[i].tenantId = auditLogs[j].tenantId)
                 => auditLogs[i].timestamp <= auditLogs[j].timestamp )
  /\ [][ Len(auditLogs') = Len(auditLogs) + 1
         => /\ auditLogs'[Len(auditLogs')].id = nextId'
            /\ auditLogs'[Len(auditLogs')].timestamp = now ]_vars

\* C15: an audit query for tenant T returns only entries of T that match
\* every supplied filter, and total is the number of all such entries
\* whatever limit and offset are; an override lookup for T returns only
\* overrides of T.
C15_TenantScopedReads ==
  [][ /\ (returned' # returned /\ returned'.storage # "none")
         => LET matching ==
                  {i \in 1..Len(auditLogs) :
                     /\ auditLogs[i].tenantId = returned'.tenantId
                     /\ (Falsy(returned'.userId)
                           \/ auditLogs[i].userId = returned'.userId)}
            IN /\ \A k \in 1..Len(returned'.logs) :
                    \E i \in matching : auditLogs[i] = returned'.logs[k]
               /\ returned'.total = Cardinality(matching)
      /\ \A tenantId \in Tenants :
           \A o \in getPermissionOverride(tenantId, "data.delete") :
             o.tenantId = tenantId ]_vars

\* C16: an audit query returns the matching entries most recent first, from
\* the in-memory and from the database storage, and the pages at offsets
\* 0, limit, 2*limit, ... are disjoint and make up the full matching list
\* in that order.
C16_MostRecentFirst ==
  /\ returned.storage # "none"
       => \A i, j \in 1..Len(returned.logs) :
            i < j => returned.logs[i].timestamp >= returned.logs[j].timestamp
  /\ \A tenantId \in Tenants :
       LET query(limit, offset) ==
             getAuditLogs([tenantId |-> tenantId, userId |-> Undefined,
                           resource |-> Undefined, action |-> Undefined,
                           limit |-> limit, offset |-> offset]).logs
           full == query(0, 0)
       IN /\ query(1, 0) \o query(1, 1) \o query(1, 2) \o query(1, 3) = full
          /\ query(2, 0) \o query(2, 2) = full

\* C14: the audit log is append-only: whatever storage operation runs
\* (audit append or query, override upsert or delete, data create, update,
\* delete or approve, user-cache upsert), every entry stored before is
\* still at its place with every field unchanged, and the log does not
\* shrink.
C14_AuditAppendOnly ==
  [][ /\ Len(auditLogs') >= Len(auditLogs)
      /\ SubSeq(auditLogs', 1, Len(auditLogs)) = auditLogs ]_vars

\* Two entries are stored, written at different times, next to a
\* user-cache record, and a query has just read them.
C14_Witness ==
  /\ Len(auditLogs) = 2
  /\ auditLogs[1].timestamp < auditLogs[2].timestamp
  /\ DOMAIN userCache # {}
  /\ returned.storage = "memory"

C19_OneRecordPerPair ==
  /\ [] ( /\ \A r1, r2 \in rows :
               (r1.tenantId = r2.tenantId /\ r1.permission = r2.permission)
                 => r1 = r2
          /\ \A k1, k2 \in DOMAIN store :
               ( /\ store[k1].tenantId = store[k2].tenantId
                 /\ store[k1].permission = store[k2].permission )
                 => k1 = k2 )
  /\ [][ /\ \A w \in Writers :
              (upserts[w].pc = "found" /\ upserts'[w].pc = "done")
                => \A r \in rows :
                     ( /\ r.tenantId = upserts[w].tenantId
                       /\ r.permission = upserts[w].permission )
                       => \E q \in rows' : /\ q.id = r.id
                                           /\ q.createdAt = r.createdAt
                                           /\ q.active = upserts[w].active
                                           /\ Cardinality(rows') = Cardinality(rows)
         /\ \A k \in DOMAIN store :
              nextId' # nextId /\ store' # store /\ k \in DOMAIN store'
                => /\ store'[k].id = store[k].id
                   /\ store'[k].createdAt = store[k].createdAt ]_vars

\* C20: two upserts of the same pair whose statements interleave end
\* last-write-wins: once both calls have returned, the table holds exactly
\* one row for the pair, and its rolesRequired and autoApproveRoles are
\* those of one of the two writes.
C20_ConcurrentUpsertsLastWriteWins ==
  LET hits == {r \in rows : r.tenantId = "t1" /\ r.permission = "data.delete"}
  IN ( \A w \in Writers : /\ upserts[w].pc = "done"
                          /\ upserts[w].tenantId = "t1"
                          /\ upserts[w].permission = "data.delete" )
     => /\ Cardinality(hits) = 1
        /\ \A r \in hits :
             \E w \in Writers : /\ r.rolesRequired = upserts[w].rolesRequired
                                /\ r.autoApproveRoles = upserts[w].autoApproveRoles

(***************************************************************************)
(* Properties of the browser's override cache.                             *)
(***************************************************************************)
\* C21: the visibility of a cached override is bounded: when an
\* administrator has changed or deactivated the tenant's override after the
\* page fetched it, the page's copy is replaced by the stored overrides
\* after some time without a restart of the page, so that later decisions
\* use the updated override.
C21_StaleCacheExpires ==
  ( /\ overridesFetch = "done"
    /\ permissionOverrides # getPermissionOverrides(authToken.tenantId) )
  ~> ( /\ overridesFetch = "done"
       /\ permissionOverrides = getPermissionOverrides(authToken.tenantId) )

(***************************************************************************)
(* Properties of the data records.                                         *)
(***************************************************************************)
\* C22: a record's status becomes 'approved', or its approvedBy is set,
\* only in a step of a principal for whom the check of data.approve allows;
\* a principal holding only data.update cannot do it through an update.
C22_ApprovalNeedsApprovePermission ==
  [][ \A id \in DOMAIN data' :
        ( \/ /\ data'[id].status = "approved"
             /\ (id \notin DOMAIN data \/ data[id].status # "approved")
          \/ /\ data'[id].approvedBy # Undefined
             /\ (id \notin DOMAIN data \/ data[id].approvedBy = Undefined) )
        => /\ ~Falsy(req.role)
           /\ checkUserPermission(req.userId, req.role, "data", "approve",
                                  req.tenantId).hasPermission ]_vars

\* C23: when a record is created, the requiresApproval of the decision
\* computed for the creating principal decides whether the record awaits
\* approval, not the request body: the record carries the decision's
\* requiresApproval, it is pending_approval exactly when the decision
\* requires approval, and then it is not 'approved'.
C23_CreationFollowsDecision ==
  [][ \A id \in DOMAIN data' \ DOMAIN data :
        /\ req.permissionCheck.set
        /\ data'[id].requiresApproval = req.permissionCheck.requiresApproval
        /\ (data'[id].status = "pending_approval")
             = req.permissionCheck.requiresApproval
        /\ req.permissionCheck.requiresApproval
             => data'[id].status # "approved" ]_vars

\* C24: the status of a record only moves draft -> pending_approval,
\* draft -> approved, pending_approval -> approved and
\* {pending_approval, approved} -> archived; a record is created as draft
\* and no other status value and no other transition occurs.
C24_StatusTransitions ==
  /\ [] ( \A id \in DOMAIN data :
            data[id].status \in {"draft", "pending_approval", "approved",
                                 "archived"} )
  /\ [][ \A id \in DOMAIN data \cap DOMAIN data' :
           \/ data'[id].status = data[id].status
           \/ <<data[id].status, data'[id].status>> \in
                {<<"draft", "pending_approval">>, <<"draft", "approved">>,
                 <<"pending_approval", "approved">>,
                 <<"pending_approval", "archived">>,
                 <<"approved", "archived">>} ]_vars

\* C30: PUT /data/:id for an id that has no record in the caller's tenant
\* is answered 404 and changes no record; DELETE /data/:id for such an id
\* is answered 204 and changes no record.  The handler steps looked at are
\* those taken while the caller's tenant holds no record at all, so that
\* every id of the request is such an id.
C30_MissingIdAnswers ==
  [][ ( /\ Current = "handler" /\ req'.status # 0
        /\ \A id \in DOMAIN data : ~getData(id, req.tenantId) )
      => /\ req.route = "PUT /data/:id" => (req'.status = 404 /\ data' = data)
         /\ req.route = "DELETE /data/:id" => (req'.status = 204 /\ data' = data)
    ]_vars

\* C25: business data is tenant-isolated: getAllData and getData called for
\* tenant T return only records of T, the calls made for tenant t1 leave
\* every record of another tenant as it is, and no operation, not even an
\* update whose payload names another tenantId, changes a record's tenantId
\* or id.
C25_DataTenantIsolated ==
  /\ [] ( /\ \A params \in DataQueries :
               /\ \A r \in getAllData(params) : r.tenantId = params.tenantId
               /\ \A r \in DbGetAllData(params) : r.tenantId = params.tenantId
          /\ \A id \in DOMAIN data, tenantId \in Tenants :
               getData(id, tenantId) => data[id].tenantId = tenantId )
  /\ [][ /\ \A id \in DOMAIN data \cap DOMAIN data' :
              /\ data'[id].tenantId = data[id].tenantId
              /\ data'[id].id = data[id].id
         /\ \A id \in DOMAIN data :
              data[id].tenantId # "t1"
                => (id \in DOMAIN data' /\ data'[id] = data[id]) ]_vars

\* C26: in the in-memory storage an upsert of the override of one pair
\* leaves the stored override of every other pair present and unchanged,
\* also when the tenant ids and permission names contain '-': after the
\* step every record stored before is still stored as it was, or its own
\* pair has a record with the same id (the pair that was written).
C26_UpsertLeavesOtherPairs ==
  [][ nextId' # nextId
      => \A k \in DOMAIN store :
           \E k2 \in DOMAIN store' :
             /\ store'[k2].tenantId = store[k].tenantId
             /\ store'[k2].permission = store[k].permission
             /\ (store'[k2] = store[k] \/ store'[k2].id = store[k].id) ]_vars

(***************************************************************************)
(* Properties of the parent-database cache.                                *)
(***************************************************************************)
\* C27: the parent-database cache is tenant-isolated: what getLocations,
\* getRooms and getTags return to a call for tenant T never contains a row
\* that was read for another tenant.
C27_ParentCacheTenantIsolated ==
  \A r \in served.data : r.tenantId = served.tenantId

\* C28: clearCache(tenantId) removes every cache entry of that tenant and
\* leaves the entries of all other tenants unchanged; clearCache() without
\* argument empties the cache.
C28_ClearCacheOneTenant ==
  [][ (served'.call = "clearCache" /\ cache' # cache)
      => IF Falsy(served'.tenantId) THEN cache' = EmptyMap
         ELSE \A k \in DOMAIN cache :
                IF \A r \in cache[k].data : r.tenantId = served'.tenantId
                THEN k \notin DOMAIN cache'
                ELSE k \in DOMAIN cache' /\ cache'[k] = cache[k] ]_vars

(***************************************************************************)
(* Properties of the object keys.                                          *)
(***************************************************************************)
\* C29: a principal of tenant T gets a signed URL for, downloads or deletes
\* an object only if an upload of T created its key: every request for a
\* key that an upload of another tenant created, whatever type that upload
\* chose, is answered 403 and leaves the object store as it is.  (Every
\* key asked for under SpecObjects is such a key.)
C29_ForeignKeysDenied ==
  [][ ( /\ Current = "handler" /\ req'.status # 0
        /\ req.route \in {"POST /storage/signed-url", "GET /storage/download",
                          "DELETE /storage/delete"} )
      => (req'.status = 403 /\ objects' = objects) ]_vars

====
